---- MODULE Spec2Model ----
(***************************************************************************)
(* StyleDocumentGenerator (generate_style_document.py): the batch loop     *)
(* that reads comments, asks the oracle (the `claude` subprocess) for an   *)
(* analysis, merges it into style_content, compacts when the document is   *)
(* too long, advances current_line and checkpoints.                        *)
(*                                                                         *)
(* Texts are sequences of one-character strings.  A line of the comments   *)
(* file is "obj" (a JSON object), "bad" (json.loads raises                 *)
(* JSONDecodeError) or "scalar" (valid JSON that is no object, so c.get    *)
(* raises AttributeError in analyze_comment_batch).  A parsed comment is   *)
(* identified by the 0-based index of its line.  Timestamps are left out:  *)
(* nothing reads them back.                                                *)
(***************************************************************************)
EXTENDS Integers, Sequences, FiniteSets, TLC

\* ------------------------------------------------------------------ bounds
MaxInput == 2      \* longest comments file, in lines
MaxBatch == 2      \* largest --batch-size
MaxLines == 4      \* largest --max-lines
MaxRuns == 2       \* processes started one after the other on the same files

\* ------------------------------------------------------------------- texts
NL == "\n"
SP == " "
Whitespace == {NL, SP}
Sep == <<NL, NL>>

RECURSIVE LStrip(_)
LStrip(t) ==
    IF t # <<>> /\ Head(t) \in Whitespace THEN LStrip(Tail(t)) ELSE t

RECURSIVE RStrip(_)
RStrip(t) ==
    IF t # <<>> /\ t[Len(t)] \in Whitespace
    THEN RStrip(SubSeq(t, 1, Len(t) - 1))
    ELSE t

\* str.strip()
Strip(t) == RStrip(LStrip(t))

\* count_lines: len(text.split('\n')) if text else 0
count_lines(text) ==
    IF text = <<>> THEN 0
    ELSE 1 + Cardinality({i \in 1..Len(text) : text[i] = NL})

\* a mutant of KeepsLength: the floor is at half of the original length
KeepsHalf(new_length, original_length) ==
    2 * new_length >= original_length

\* new_length >= original_length * 0.9 (the float product decides the same
\* as the integers for every length below 2000)
KeepsLength(new_length, original_length) ==
    10 * new_length >= 9 * original_length

Max(a, b) == IF a >= b THEN a ELSE b

\* ------------------------------------------------------------------ inputs
LineKinds == {"obj", "bad", "scalar"}
Files == UNION {[1..n -> LineKinds] : n \in 0..MaxInput}
BatchSizes == 0..MaxBatch
MaxLinesValues == {-1, MaxLines}

\* what the oracle process may print
RawTexts == {<<>>, <<SP>>, <<"a", NL, "b", NL>>}

\* Optional[str]: None is [ok |-> FALSE]
None == [ok |-> FALSE, text |-> <<>>]
Some(t) == [ok |-> TRUE, text |-> t]
Truthy(r) == r.ok /\ r.text # <<>>

VARIABLES
    comments_file,     \* the lines of the comments file
    batch_size,        \* self.batch_size
    max_lines,         \* self.max_lines
    current_line,      \* self.current_line
    style_content,     \* self.style_content
    compaction_count,  \* self.compaction_count
    total_lines,       \* run: total_lines
    batch,             \* run: batch
    analysis,          \* run: analysis
    updated_content,   \* run: updated_content
    compacted,         \* compact_style_document: compacted
    progress_file,     \* the checkpoint file
    output_file,       \* the published document
    pc,                \* where the process is
    mode,              \* "loop", or the handler that is saving: "interrupt", "error"
    exit_status,       \* -1 while the process runs
    proc,              \* the oracle subprocess of call_claude
    run_no,            \* number of the running process
    prev_outcome,      \* how the previous process ended
    batches,           \* history: the batches given to analyze_comment_batch by this process
    calls,             \* history: oracle invocations of this process
    first_analysis,    \* history: what the first analyze_comment_batch of this process returned
    oracle_failed,     \* history: an oracle call of this process gave no text
    iter_start,        \* history: the state at the start of the current iteration
    at_interrupt,      \* history: the state when KeyboardInterrupt was raised
    merged_upto,       \* history: largest current_line + len(batch) of a batch whose analysis is in style_content
    write_failed,      \* history: a write of this process raised
    saved_line,        \* history: current_line of the last complete checkpoint written
    deterministic,     \* the oracle is a fixed stub: same prompt, same outcome
    memo,              \* the stub's answers so far
    phase,             \* "ref": one pass; "test": with interruptions
    ref                \* the one-pass result

vars == <<comments_file, batch_size, max_lines, current_line, style_content,
          compaction_count, total_lines, batch, analysis, updated_content,
          compacted, first_analysis, oracle_failed, progress_file, output_file, pc, mode, exit_status, proc, run_no,
          prev_outcome, batches, calls, iter_start, at_interrupt, merged_upto,
          write_failed, saved_line, deterministic, memo, phase, ref>>

config == <<comments_file, batch_size, max_lines, deterministic>>
memory == <<current_line, style_content, compaction_count>>
locals == <<total_lines, batch, analysis, updated_content, compacted>>
files == <<progress_file, output_file, saved_line>>
history == <<prev_outcome, batches, calls, first_analysis, oracle_failed, iter_start,
            at_interrupt, merged_upto, write_failed>>
stub == <<memo, phase, ref>>

Snapshot == [current_line |-> current_line, style_content |-> style_content,
             compaction_count |-> compaction_count]

NoFile == [status |-> "absent", current_line |-> 0, style_content |-> <<>>,
           compaction_count |-> 0, merged_upto |-> 0]
NoOutput == [status |-> "absent", current_line |-> 0, compaction_count |-> 0,
             body |-> <<>>]
NoCalls == [analyze |-> 0, merge |-> 0, compact |-> 0]
NoSnapshot == [current_line |-> 0, style_content |-> <<>>, compaction_count |-> 0]

\* __init__ (lines 17-26), with no checkpoint file and no output yet
InitWith(det) ==
    /\ comments_file \in Files
    /\ batch_size \in BatchSizes
    /\ max_lines \in MaxLinesValues
    /\ current_line = 0
    /\ style_content = <<>>
    /\ compaction_count = 0
    /\ total_lines = 0
    /\ batch = <<>>
    /\ analysis = None
    /\ updated_content = None
    /\ compacted = None
    /\ first_analysis = None
    /\ oracle_failed = FALSE
    /\ progress_file = NoFile
    /\ output_file = NoOutput
    /\ pc = "LOADING"
    /\ mode = "loop"
    /\ exit_status = -1
    /\ proc = "none"
    /\ run_no = 1
    /\ prev_outcome = "none"
    /\ batches = <<>>
    /\ calls = NoCalls
    /\ iter_start = NoSnapshot
    /\ at_interrupt = NoSnapshot
    /\ merged_upto = 0
    /\ write_failed = FALSE
    /\ saved_line = 0
    /\ deterministic = det
    /\ memo = {}
    /\ phase = "ref"
    /\ ref = NoSnapshot

Init == InitWith(FALSE)

\* a mutant of LoadProgress: style_content is not read back
LoadProgressNoContent ==
    /\ pc = "LOADING"
    /\ IF progress_file.status = "ok"
       THEN /\ current_line' = progress_file.current_line
            /\ compaction_count' = progress_file.compaction_count
            /\ merged_upto' = progress_file.merged_upto
       ELSE /\ UNCHANGED <<current_line, compaction_count>>
            /\ merged_upto' = 0
    /\ UNCHANGED style_content
    /\ total_lines' = Len(comments_file)
    /\ pc' = "ITERATING"
    /\ UNCHANGED <<config, batch, analysis, updated_content, compacted, files,
                   mode, exit_status, proc, run_no, prev_outcome, batches, calls,
                   first_analysis, oracle_failed, iter_start, at_interrupt,
                   write_failed, stub>>

\* a mutant of LoadProgress: current_line is not read back
LoadProgressNoCursor ==
    /\ pc = "LOADING"
    /\ IF progress_file.status = "ok"
       THEN /\ style_content' = progress_file.style_content
            /\ compaction_count' = progress_file.compaction_count
            /\ merged_upto' = progress_file.merged_upto
       ELSE /\ UNCHANGED <<style_content, compaction_count>>
            /\ merged_upto' = 0
    /\ UNCHANGED current_line
    /\ total_lines' = Len(comments_file)
    /\ pc' = "ITERATING"
    /\ UNCHANGED <<config, batch, analysis, updated_content, compacted, files,
                   mode, exit_status, proc, run_no, prev_outcome, batches, calls,
                   first_analysis, oracle_failed, iter_start, at_interrupt,
                   write_failed, stub>>

\* load_progress, then get_total_lines (run, lines 236-237)
LoadProgress ==
    /\ pc = "LOADING"
    /\ IF progress_file.status = "ok"
       THEN /\ current_line' = progress_file.current_line
            /\ style_content' = progress_file.style_content
            /\ compaction_count' = progress_file.compaction_count
            /\ merged_upto' = progress_file.merged_upto
       ELSE \* no file, or json.load raises: "Starting fresh..."
            /\ UNCHANGED memory
            /\ merged_upto' = 0
    /\ total_lines' = Len(comments_file)
    /\ pc' = "ITERATING"
    /\ UNCHANGED <<config, batch, analysis, updated_content, compacted, files,
                   mode, exit_status, proc, run_no, prev_outcome, batches, calls,
                   first_analysis, oracle_failed, iter_start, at_interrupt,
                   write_failed, stub>>

\* ------------------------------------------------------------ Batch Reader
\* read_comment_batch (lines 65-83): the loop over enumerate(f) from line i
RECURSIVE ReadFrom(_, _, _, _, _)
ReadFrom(f, i, start_line, size, comments) ==
    IF i >= Len(f) THEN comments
    ELSE IF i < start_line THEN ReadFrom(f, i + 1, start_line, size, comments)
    ELSE IF Len(comments) >= size THEN comments
    ELSE IF f[i + 1] = "bad" THEN ReadFrom(f, i + 1, start_line, size, comments)
    ELSE ReadFrom(f, i + 1, start_line, size, Append(comments, i))

\* a mutant of read_comment_batch: a malformed line uses a batch slot (the
\* lines start_line .. start_line + size - 1 are read, the malformed dropped)
ReadWindow(start_line, size) ==
    SelectSeq([i \in 1..Len(comments_file) |-> i - 1],
              LAMBDA i : /\ i >= start_line
                         /\ i < start_line + size
                         /\ comments_file[i + 1] # "bad")

read_comment_batch(start_line, size) ==
    ReadFrom(comments_file, 0, start_line, size, <<>>)

\* ----------------------------------------------------------- Oracle Client
\* how the subprocess of call_claude may end (lines 101-121): return code 0
\* with some stdout, a non-zero return code, or TimeoutExpired
Outcomes(stdouts) ==
    {[kind |-> "ok", stdout |-> s] : s \in stdouts}
        \cup {[kind |-> "error", stdout |-> <<>>],
              [kind |-> "timeout", stdout |-> <<>>]}

\* call_claude's return value (lines 107-118)
call_claude(o) ==
    IF o.kind = "ok" THEN Some(Strip(o.stdout)) ELSE None

\* the subprocess after call_claude returned: it exited by itself, or
\* process.kill() ended it after TimeoutExpired (lines 114-118)
Reaped(o) == "none"

\* a fixed stub: call_claude returns for a prompt it has seen what it
\* returned before
Allowed(prompt, o) ==
    deterministic => \A m \in memo : m.prompt = prompt => m.result = call_claude(o)

Remember(prompt, o) ==
    IF deterministic
    THEN memo \cup {[prompt |-> prompt, result |-> call_claude(o)]}
    ELSE memo

AnalyzePrompt == [op |-> "analyze", batch |-> batch, doc |-> <<>>, analysis |-> <<>>]
MergePrompt == [op |-> "merge", batch |-> <<>>, doc |-> style_content,
                analysis |-> analysis.text]
CompactPrompt == [op |-> "compact", batch |-> <<>>, doc |-> style_content,
                  analysis |-> <<>>]

\* what the oracle may print when asked to merge: anything of RawTexts, the
\* document with the analysis, or the document cut short by one or two characters
MergeTexts ==
    RawTexts \cup {style_content \o <<NL>> \o analysis.text}
             \cup {SubSeq(style_content, 1, Len(style_content) - k) : k \in 1..2}

\* ------------------------------------------------------------ the batch loop
\* run, lines 242-245: the while test holds and the batch is not empty
ReadBatch ==
    /\ pc = "ITERATING"
    /\ current_line < total_lines
    /\ read_comment_batch(current_line, batch_size) # <<>>
    /\ batch' = read_comment_batch(current_line, batch_size)
    /\ iter_start' = Snapshot
    /\ pc' = "ANALYZE"
    /\ UNCHANGED <<config, memory, total_lines, analysis, updated_content,
                   compacted, files, mode, exit_status, proc, run_no,
                   prev_outcome, batches, calls, first_analysis, oracle_failed,
                   at_interrupt, merged_upto, write_failed, stub>>

\* a mutant of EmptyBatch: the lines that gave no record are counted as read
EmptyBatchSkipsAhead ==
    /\ pc = "ITERATING"
    /\ current_line < total_lines
    /\ read_comment_batch(current_line, batch_size) = <<>>
    /\ batch' = <<>>
    /\ current_line' = total_lines
    /\ pc' = "DONE"
    /\ exit_status' = 0
    /\ UNCHANGED <<config, style_content, compaction_count, total_lines, analysis,
                   updated_content, compacted, files, mode, proc, run_no, history,
                   stub>>

\* run, lines 244-245 and 298-300: the batch is empty, break
EmptyBatch ==
    /\ pc = "ITERATING"
    /\ current_line < total_lines
    /\ read_comment_batch(current_line, batch_size) = <<>>
    /\ batch' = <<>>
    /\ pc' = "DONE"
    /\ exit_status' = 0
    /\ UNCHANGED <<config, memory, total_lines, analysis, updated_content,
                   compacted, files, mode, proc, run_no, history, stub>>

\* run, lines 242 and 298-300: the while test fails
LoopDone ==
    /\ pc = "ITERATING"
    /\ current_line >= total_lines
    /\ pc' = "DONE"
    /\ exit_status' = 0
    /\ UNCHANGED <<config, memory, locals, files, mode, proc, run_no, history, stub>>

HasScalar(b) == \E k \in 1..Len(b) : comments_file[b[k] + 1] = "scalar"

\* analyze_comment_batch, lines 128-134: c.get raises AttributeError, which
\* run catches at line 292
AnalyzeRaise ==
    /\ pc = "ANALYZE"
    /\ HasScalar(batch)
    /\ batches' = Append(batches, batch)
    /\ mode' = "error"
    /\ pc' = "SAVE"
    /\ UNCHANGED <<config, memory, locals, files, exit_status, proc, run_no,
                   prev_outcome, calls, first_analysis, oracle_failed, iter_start,
                   at_interrupt, merged_upto, write_failed, stub>>

\* analyze_comment_batch, line 151, and call_claude, lines 100-102
AnalyzeCall ==
    /\ pc = "ANALYZE"
    /\ ~HasScalar(batch)
    /\ batches' = Append(batches, batch)
    /\ calls' = [calls EXCEPT !.analyze = @ + 1]
    /\ proc' = "running"
    /\ pc' = "ANALYZE_WAIT"
    /\ UNCHANGED <<config, memory, locals, files, mode, exit_status, run_no,
                   prev_outcome, first_analysis, oracle_failed, iter_start,
                   at_interrupt, merged_upto, write_failed, stub>>

\* call_claude, lines 105-121, and run, line 250
AnalyzeReturn ==
    /\ pc = "ANALYZE_WAIT"
    /\ \E o \in Outcomes(RawTexts) :
        /\ Allowed(AnalyzePrompt, o)
        /\ memo' = Remember(AnalyzePrompt, o)
        /\ analysis' = call_claude(o)
        /\ proc' = Reaped(o)
    /\ first_analysis' = IF calls.analyze = 1 THEN analysis' ELSE first_analysis
    /\ oracle_failed' = (oracle_failed \/ ~Truthy(analysis'))
    /\ pc' = "MERGE"
    /\ UNCHANGED <<config, memory, total_lines, batch, updated_content,
                   compacted, files, mode, exit_status, run_no, prev_outcome,
                   batches, calls, iter_start, at_interrupt, merged_upto,
                   write_failed, phase, ref>>

\* a mutant of MergeSkip: the missing analysis is appended as an empty text
MergeSkipAppendsEmpty ==
    /\ pc = "MERGE"
    /\ ~Truthy(analysis)
    /\ style_content' = style_content \o Sep
    /\ pc' = "COMPACT"
    /\ UNCHANGED <<config, current_line, compaction_count, locals, files, mode,
                   exit_status, proc, run_no, history, stub>>

\* run, lines 251 and 271-272: no analysis
MergeSkip ==
    /\ pc = "MERGE"
    /\ ~Truthy(analysis)
    /\ pc' = "COMPACT"
    /\ UNCHANGED <<config, memory, locals, files, mode, exit_status, proc, run_no,
                   history, stub>>

\* run, lines 253 and 268-270: first content
MergeFirst ==
    /\ pc = "MERGE"
    /\ Truthy(analysis)
    /\ style_content = <<>>
    /\ style_content' = analysis.text
    /\ merged_upto' = Max(merged_upto, current_line + Len(batch))
    /\ pc' = "COMPACT"
    /\ UNCHANGED <<config, current_line, compaction_count, locals, files, mode,
                   exit_status, proc, run_no, prev_outcome, batches, calls,
                   first_analysis, oracle_failed, iter_start, at_interrupt,
                   write_failed, stub>>

\* run, lines 253-256, update_style_document, line 178, and call_claude
MergeCall ==
    /\ pc = "MERGE"
    /\ Truthy(analysis)
    /\ style_content # <<>>
    /\ calls' = [calls EXCEPT !.merge = @ + 1]
    /\ proc' = "running"
    /\ pc' = "MERGE_WAIT"
    /\ UNCHANGED <<config, memory, locals, files, mode, exit_status, run_no,
                   prev_outcome, batches, first_analysis, oracle_failed, iter_start,
                   at_interrupt, merged_upto, write_failed, stub>>

\* a mutant of MergePolicy: any non-empty answer replaces the document
MergePolicyNoFloor(doc, new_analysis, updated) ==
    IF updated.ok /\ Len(Strip(updated.text)) > 0
    THEN updated.text
    ELSE doc \o Sep \o new_analysis

\* a mutant of MergePolicy: after a failed merge the analysis is dropped
MergePolicyDropsAnalysis(doc, new_analysis, updated) ==
    IF updated.ok /\ Len(Strip(updated.text)) > 0
    THEN IF KeepsLength(Len(updated.text), Len(doc))
         THEN updated.text
         ELSE doc \o Sep \o new_analysis
    ELSE doc

\* run, lines 257-267: the document after the merge oracle answered
MergePolicy(doc, new_analysis, updated) ==
    IF updated.ok /\ Len(Strip(updated.text)) > 0
    THEN IF KeepsLength(Len(updated.text), Len(doc))
         THEN updated.text
         ELSE doc \o Sep \o new_analysis
    ELSE doc \o Sep \o new_analysis

\* call_claude, lines 105-121, and run, lines 256-267
MergeReturn ==
    /\ pc = "MERGE_WAIT"
    /\ \E o \in Outcomes(MergeTexts) :
        /\ Allowed(MergePrompt, o)
        /\ memo' = Remember(MergePrompt, o)
        /\ updated_content' = call_claude(o)
        /\ proc' = Reaped(o)
    /\ style_content' = MergePolicy(style_content, analysis.text, updated_content')
    /\ merged_upto' = Max(merged_upto, current_line + Len(batch))
    /\ oracle_failed' = (oracle_failed \/ ~Truthy(updated_content'))
    /\ pc' = "COMPACT"
    /\ UNCHANGED <<config, current_line, compaction_count, total_lines, batch,
                   analysis, compacted, files, mode, exit_status, run_no,
                   prev_outcome, batches, calls, first_analysis, iter_start,
                   at_interrupt, write_failed, phase, ref>>

\* run, lines 274-277: the document is within max_lines
CompactSkip ==
    /\ pc = "COMPACT"
    /\ count_lines(style_content) <= max_lines
    /\ pc' = "ADVANCE"
    /\ UNCHANGED <<config, memory, locals, files, mode, exit_status, proc, run_no,
                   history, stub>>

\* compact_style_document, lines 186-187: nothing to compact
CompactEmpty ==
    /\ pc = "COMPACT"
    /\ count_lines(style_content) > max_lines
    /\ style_content = <<>>
    /\ pc' = "ADVANCE"
    /\ UNCHANGED <<config, memory, locals, files, mode, exit_status, proc, run_no,
                   history, stub>>

\* compact_style_document, line 205, and call_claude, lines 100-102
CompactCall ==
    /\ pc = "COMPACT"
    /\ count_lines(style_content) > max_lines
    /\ style_content # <<>>
    /\ calls' = [calls EXCEPT !.compact = @ + 1]
    /\ proc' = "running"
    /\ pc' = "COMPACT_WAIT"
    /\ UNCHANGED <<config, memory, locals, files, mode, exit_status, run_no,
                   prev_outcome, batches, first_analysis, oracle_failed, iter_start,
                   at_interrupt, merged_upto, write_failed, stub>>

\* a mutant of CompactReturn: a successful compaction is not counted
CompactReturnNoCount ==
    /\ pc = "COMPACT_WAIT"
    /\ \E o \in Outcomes(RawTexts) :
        /\ Allowed(CompactPrompt, o)
        /\ memo' = Remember(CompactPrompt, o)
        /\ proc' = Reaped(o)
        /\ compacted' = call_claude(o)
    /\ IF Truthy(compacted')
       THEN style_content' = compacted'.text
       ELSE UNCHANGED style_content
    /\ oracle_failed' = (oracle_failed \/ ~Truthy(compacted'))
    /\ pc' = "ADVANCE"
    /\ UNCHANGED <<config, current_line, compaction_count, total_lines, batch,
                   analysis, updated_content, files, mode, exit_status, run_no,
                   prev_outcome, batches, calls, first_analysis, iter_start,
                   at_interrupt, merged_upto, write_failed, phase, ref>>

\* a mutant of CompactReturn: a failed compaction leaves an empty document
CompactReturnFailClears ==
    /\ pc = "COMPACT_WAIT"
    /\ \E o \in Outcomes(RawTexts) :
        /\ Allowed(CompactPrompt, o)
        /\ memo' = Remember(CompactPrompt, o)
        /\ proc' = Reaped(o)
        /\ compacted' = call_claude(o)
    /\ IF Truthy(compacted')
       THEN /\ style_content' = compacted'.text
            /\ compaction_count' = compaction_count + 1
       ELSE /\ style_content' = <<>>
            /\ UNCHANGED compaction_count
    /\ oracle_failed' = (oracle_failed \/ ~Truthy(compacted'))
    /\ pc' = "ADVANCE"
    /\ UNCHANGED <<config, current_line, total_lines, batch, analysis,
                   updated_content, files, mode, exit_status, run_no,
                   prev_outcome, batches, calls, first_analysis, iter_start,
                   at_interrupt, merged_upto, write_failed, phase, ref>>

\* call_claude, lines 105-121, and compact_style_document, lines 205-214
CompactReturn ==
    /\ pc = "COMPACT_WAIT"
    /\ \E o \in Outcomes(RawTexts) :
        /\ Allowed(CompactPrompt, o)
        /\ memo' = Remember(CompactPrompt, o)
        /\ proc' = Reaped(o)
        /\ compacted' = call_claude(o)
    /\ IF Truthy(compacted')
       THEN /\ style_content' = compacted'.text
            /\ compaction_count' = compaction_count + 1
       ELSE UNCHANGED <<style_content, compaction_count>>
    /\ oracle_failed' = (oracle_failed \/ ~Truthy(compacted'))
    /\ pc' = "ADVANCE"
    /\ UNCHANGED <<config, current_line, total_lines, batch, analysis,
                   updated_content, files, mode, exit_status, run_no,
                   prev_outcome, batches, calls, first_analysis, iter_start,
                   at_interrupt, merged_upto, write_failed, phase, ref>>

\* a mutant of Advance: the cursor also counts a line that was not read
AdvanceOneMore ==
    /\ pc = "ADVANCE"
    /\ current_line' = current_line + Len(batch) + 1
    /\ pc' = "SAVE"
    /\ UNCHANGED <<config, style_content, compaction_count, locals, files, mode,
                   exit_status, proc, run_no, history, stub>>

\* a mutant of Advance: the batch is taken for the rest of the input
AdvanceToEnd ==
    /\ pc = "ADVANCE"
    /\ current_line' = total_lines
    /\ pc' = "SAVE"
    /\ UNCHANGED <<config, style_content, compaction_count, locals, files, mode,
                   exit_status, proc, run_no, history, stub>>

\* run, line 281
Advance ==
    /\ pc = "ADVANCE"
    /\ current_line' = current_line + Len(batch)
    /\ pc' = "SAVE"
    /\ UNCHANGED <<config, style_content, compaction_count, locals, files, mode,
                   exit_status, proc, run_no, history, stub>>

\* ----------------------------------------------------------- Progress Store
\* save_progress, line 51: open(..., 'w') truncates the file
SaveOpen ==
    /\ pc = "SAVE"
    /\ progress_file' = [NoFile EXCEPT !.status = "partial"]
    /\ pc' = "SAVE_WRITE"
    /\ UNCHANGED <<config, memory, locals, output_file, saved_line, mode,
                   exit_status, proc, run_no, history, stub>>

\* a mutant of Checkpoint: the state of the last completed iteration is
\* written instead of the state in memory
CheckpointOfIterationStart ==
    [status |-> "ok", current_line |-> iter_start.current_line,
     style_content |-> iter_start.style_content,
     compaction_count |-> iter_start.compaction_count,
     merged_upto |-> merged_upto]

\* what json.dump writes (lines 44-52)
Checkpoint ==
    [status |-> "ok", current_line |-> current_line,
     style_content |-> style_content, compaction_count |-> compaction_count,
     merged_upto |-> merged_upto]

\* save_progress, line 52, and the close of the file
SaveWrite ==
    /\ pc = "SAVE_WRITE"
    /\ progress_file' = Checkpoint
    /\ saved_line' = current_line
    /\ pc' = "PUBLISH"
    /\ UNCHANGED <<config, memory, locals, output_file, mode, exit_status, proc,
                   run_no, history, stub>>

\* ------------------------------------------------------- Document Publisher
\* what save_style_document writes (lines 219-228)
Rendered ==
    [status |-> "ok", current_line |-> current_line,
     compaction_count |-> compaction_count, body |-> style_content]

\* where the process goes after the two saves: line 285, 291 or 296
AfterSaves == IF mode = "loop" THEN "ITERATING"
              ELSE IF mode = "interrupt" THEN "INTERRUPTED" ELSE "FAILED"
StatusAfterSaves == IF mode = "loop" THEN -1 ELSE IF mode = "interrupt" THEN 0 ELSE 1

\* save_style_document, then time.sleep (283-285) or sys.exit (291, 296).
\* The next iteration assigns batch, analysis, updated_content and compacted
\* before it reads them, so the loop is given them cleared (and the
\* history of the iteration with them).
Publish ==
    /\ pc = "PUBLISH"
    /\ output_file' = Rendered
    /\ pc' = AfterSaves
    /\ exit_status' = StatusAfterSaves
    /\ IF mode = "loop"
       THEN /\ batch' = <<>>
            /\ analysis' = None
            /\ updated_content' = None
            /\ compacted' = None
            /\ iter_start' = NoSnapshot
       ELSE UNCHANGED <<batch, analysis, updated_content, compacted, iter_start>>
    /\ UNCHANGED <<config, memory, total_lines, progress_file, saved_line, mode,
                   proc, run_no,
                   prev_outcome, batches, calls, first_analysis, oracle_failed,
                   at_interrupt, merged_upto, write_failed, stub>>

\* ------------------------------------------------------------ write faults
\* a mutant of SaveOpenFail: the exception is not caught in save_progress; it
\* reaches the handler of run, or ends the process when a handler was saving
SaveOpenFailRaises ==
    /\ pc = "SAVE"
    /\ write_failed' = TRUE
    /\ IF mode = "loop"
       THEN mode' = "error" /\ pc' = "SAVE" /\ UNCHANGED exit_status
       ELSE mode' = mode /\ pc' = "FAILED" /\ exit_status' = 1
    /\ UNCHANGED <<config, memory, locals, files, proc, run_no, prev_outcome,
                   batches, calls, first_analysis, oracle_failed, iter_start,
                   at_interrupt, merged_upto, stub>>

\* save_progress, lines 51 and 53-54: open raises, the exception is printed
SaveOpenFail ==
    /\ pc = "SAVE"
    /\ write_failed' = TRUE
    /\ pc' = "PUBLISH"
    /\ UNCHANGED <<config, memory, locals, files, mode, exit_status, proc, run_no,
                   prev_outcome, batches, calls, first_analysis, oracle_failed,
                   iter_start, at_interrupt, merged_upto, stub>>

\* save_progress, lines 52-54: json.dump raises on the truncated file, the
\* exception is printed
SaveWriteFail ==
    /\ pc = "SAVE_WRITE"
    /\ write_failed' = TRUE
    /\ pc' = "PUBLISH"
    /\ UNCHANGED <<config, memory, locals, files, mode, exit_status, proc, run_no,
                   prev_outcome, batches, calls, first_analysis, oracle_failed,
                   iter_start, at_interrupt, merged_upto, stub>>

\* save_style_document, lines 219-230: open or write raises, the exception
\* is printed; the output is as it was, or truncated
PublishFail ==
    /\ pc = "PUBLISH"
    /\ write_failed' = TRUE
    /\ output_file' \in {output_file, [NoOutput EXCEPT !.status = "partial"]}
    /\ pc' = AfterSaves
    /\ exit_status' = StatusAfterSaves
    /\ IF mode = "loop"
       THEN /\ batch' = <<>>
            /\ analysis' = None
            /\ updated_content' = None
            /\ compacted' = None
            /\ iter_start' = NoSnapshot
       ELSE UNCHANGED <<batch, analysis, updated_content, compacted, iter_start>>
    /\ UNCHANGED <<config, memory, total_lines, progress_file, saved_line, mode,
                   proc, run_no,
                   prev_outcome, batches, calls, first_analysis, oracle_failed,
                   at_interrupt, merged_upto, stub>>

\* ---------------------------------------------------------------- interrupt
LoopPcs == {"ITERATING", "ANALYZE", "ANALYZE_WAIT", "MERGE", "MERGE_WAIT",
            "COMPACT", "COMPACT_WAIT", "ADVANCE", "SAVE", "SAVE_WRITE", "PUBLISH"}
WaitPcs == {"ANALYZE_WAIT", "MERGE_WAIT", "COMPACT_WAIT"}

\* KeyboardInterrupt raised inside the try of run (lines 241-288); a running
\* oracle process is not killed by call_claude, it ends only if the signal
\* reached it too
InterruptAt(pcs) ==
    /\ pc \in pcs
    /\ mode = "loop"
    /\ at_interrupt' = Snapshot
    /\ mode' = "interrupt"
    /\ pc' = "SAVE"
    /\ IF pc \in WaitPcs THEN proc' \in {"running", "none"} ELSE proc' = proc
    /\ UNCHANGED <<config, memory, locals, files, exit_status, run_no,
                   prev_outcome, batches, calls, first_analysis, oracle_failed,
                   iter_start, merged_upto, write_failed, stub>>

Interrupt == InterruptAt(LoopPcs)

Terminal == {"DONE", "INTERRUPTED", "FAILED"}

\* the program is started again on the same files: __init__ (lines 17-26)
Restart ==
    /\ pc \in Terminal
    /\ run_no < MaxRuns
    /\ run_no' = run_no + 1
    /\ prev_outcome' = pc
    /\ current_line' = 0
    /\ style_content' = <<>>
    /\ compaction_count' = 0
    /\ total_lines' = 0
    /\ batch' = <<>>
    /\ analysis' = None
    /\ updated_content' = None
    /\ compacted' = None
    /\ first_analysis' = None
    /\ oracle_failed' = FALSE
    /\ pc' = "LOADING"
    /\ mode' = "loop"
    /\ exit_status' = -1
    /\ proc' = "none"
    /\ batches' = <<>>
    /\ calls' = NoCalls
    /\ iter_start' = NoSnapshot
    /\ merged_upto' = 0
    /\ write_failed' = FALSE
    /\ UNCHANGED <<config, files, at_interrupt, stub>>

\* -------------------------------------------------------------------- crash
\* the process is killed (SIGKILL, power loss) while it runs: no handler, the
\* files stay as they are at that moment
Kill ==
    /\ pc \in LoopPcs \cup {"LOADING"}
    /\ pc' = "KILLED"
    /\ exit_status' = 137
    /\ UNCHANGED <<config, memory, locals, files, mode, proc, run_no, history,
                   stub>>

\* the program is started again after it was killed: __init__ (lines 17-26)
RestartKilled ==
    /\ pc = "KILLED"
    /\ run_no < MaxRuns
    /\ run_no' = run_no + 1
    /\ prev_outcome' = pc
    /\ current_line' = 0
    /\ style_content' = <<>>
    /\ compaction_count' = 0
    /\ total_lines' = 0
    /\ batch' = <<>>
    /\ analysis' = None
    /\ updated_content' = None
    /\ compacted' = None
    /\ first_analysis' = None
    /\ oracle_failed' = FALSE
    /\ pc' = "LOADING"
    /\ mode' = "loop"
    /\ exit_status' = -1
    /\ proc' = "none"
    /\ batches' = <<>>
    /\ calls' = NoCalls
    /\ iter_start' = NoSnapshot
    /\ merged_upto' = 0
    /\ write_failed' = FALSE
    /\ UNCHANGED <<config, files, at_interrupt, stub>>

\* ------------------------------------------------- one pass against resumed
\* KeyboardInterrupt between two iterations, after the checkpoint of a batch
\* of this process was saved (line 285)
InterruptAfterBatch ==
    /\ phase = "test"
    /\ batches # <<>>
    /\ InterruptAt({"ITERATING"})

\* the interrupted program is started again
RestartResumed ==
    /\ phase = "test"
    /\ pc = "INTERRUPTED"
    /\ Restart

\* the one-pass run has ended: its result is kept, and the program is run on
\* the same input and the same stub from the default checkpoint
BeginTest ==
    /\ phase = "ref"
    /\ pc \in {"DONE", "FAILED"}
    /\ ref' = Snapshot
    /\ phase' = "test"
    /\ progress_file' = NoFile
    /\ output_file' = NoOutput
    /\ saved_line' = 0
    /\ run_no' = 1
    /\ prev_outcome' = "none"
    /\ current_line' = 0
    /\ style_content' = <<>>
    /\ compaction_count' = 0
    /\ total_lines' = 0
    /\ batch' = <<>>
    /\ analysis' = None
    /\ updated_content' = None
    /\ compacted' = None
    /\ first_analysis' = None
    /\ oracle_failed' = FALSE
    /\ pc' = "LOADING"
    /\ mode' = "loop"
    /\ exit_status' = -1
    /\ proc' = "none"
    /\ batches' = <<>>
    /\ calls' = NoCalls
    /\ iter_start' = NoSnapshot
    /\ at_interrupt' = NoSnapshot
    /\ merged_upto' = 0
    /\ write_failed' = FALSE
    /\ UNCHANGED <<config, memo>>

\* -------------------------------------------------------------------- claims

\* C2: within a run (the default checkpoint, or one written by an earlier run
\* on the same input) current_line never decreases from one state to the
\* next, and it never exceeds the number of lines of the input, whatever the
\* input's lines and the oracle's answers are.
C2_MonotonicCursor ==
    /\ current_line <= Len(comments_file)
    /\ [][/\ run_no' = run_no => current_line' >= current_line
          /\ current_line' <= Len(comments_file)]_vars

\* C2's case: a resumed run advances the cursor over a file with a malformed line
C2_Witness ==
    /\ run_no = 2
    /\ prev_outcome = "INTERRUPTED"
    /\ \E i \in 1..Len(comments_file) : comments_file[i] = "bad"
    /\ pc = "SAVE"
    /\ mode = "loop"
    /\ iter_start.current_line > 0
    /\ current_line > iter_start.current_line

\* C3: when the merge oracle answers with a text shorter than 90% of the
\* document, the document after the merge step is the document before it,
\* a blank-line separator and the analysis, never the short answer.
C3_NoSilentShrink ==
    [][(/\ pc = "MERGE_WAIT"
        /\ pc' = "COMPACT"
        /\ updated_content'.ok
        /\ 10 * Len(updated_content'.text) < 9 * Len(style_content))
       => style_content' = style_content \o <<NL, NL>> \o analysis.text]_vars

\* C3's case: a non-empty answer below the floor was rejected and the analysis appended
C3_Witness ==
    /\ pc = "COMPACT"
    /\ updated_content.ok
    /\ updated_content.text # <<>>
    /\ 10 * Len(updated_content.text) < 9 * Len(iter_start.style_content)
    /\ style_content = iter_start.style_content \o <<NL, NL>> \o analysis.text

\* the second half of C4: a successful compaction replaces the document by
\* its result and adds exactly 1 to compaction_count; a failed one changes neither
CompactionEffect ==
    (pc = "COMPACT_WAIT" /\ pc' = "ADVANCE")
        => IF compacted'.ok /\ compacted'.text # <<>>
           THEN /\ style_content' = compacted'.text
                /\ compaction_count' = compaction_count + 1
           ELSE UNCHANGED <<style_content, compaction_count>>

\* C4 as claimed: in every batch iteration the compaction oracle is invoked
\* if and only if the document's line count after the merge step exceeds
\* max_lines; a successful compaction adds exactly 1 to compaction_count and
\* makes its result the document.
C4_Original ==
    [][/\ (pc = "COMPACT" /\ pc' \in {"COMPACT_WAIT", "ADVANCE"})
            => (calls'.compact = calls.compact + 1
                    <=> count_lines(style_content) > max_lines)
       /\ CompactionEffect]_vars

\* C4 as amended: the compaction oracle is invoked if and only if the line
\* count after the merge step exceeds max_lines and the document is not
\* empty; a successful compaction adds exactly 1 to compaction_count and
\* makes its result the document.
C4_CompactionGating ==
    [][/\ (pc = "COMPACT" /\ pc' \in {"COMPACT_WAIT", "ADVANCE"})
            => (calls'.compact = calls.compact + 1
                    <=> (count_lines(style_content) > max_lines
                            /\ style_content # <<>>))
       /\ CompactionEffect]_vars

\* C4's case: the document was over max_lines and the compaction succeeded
C4_Witness ==
    /\ pc = "ADVANCE"
    /\ calls.compact > 0
    /\ compacted.ok
    /\ compacted.text # <<>>
    /\ style_content = compacted.text
    /\ compaction_count = iter_start.compaction_count + 1

\* C9: when read_comment_batch returns an empty batch the engine goes to
\* DONE without an oracle call and without changing style_content,
\* current_line or compaction_count, in memory or in the checkpoint file.
C9_EmptyBatchIsNoOp ==
    [][(/\ pc = "ITERATING"
        /\ current_line < total_lines
        /\ read_comment_batch(current_line, batch_size) = <<>>
        /\ mode' = "loop")
       => /\ pc' = "DONE"
          /\ UNCHANGED <<current_line, style_content, compaction_count,
                         progress_file, calls, proc>>]_vars

\* C9's case: the loop was left with lines remaining, after a batch was processed
C9_Witness ==
    /\ pc = "DONE"
    /\ current_line < total_lines
    /\ current_line > 0
    /\ batch = <<>>
    /\ progress_file.status = "ok"
    /\ progress_file.current_line = current_line


\* C5 as claimed: every checkpoint written holds only completed iterations:
\* the analysis of a batch is in the persisted style_content only if the
\* persisted current_line has advanced past that batch.
C5_CheckpointOnlyCompleted ==
    progress_file.status = "ok"
        => progress_file.merged_upto <= progress_file.current_line

\* C6: an interruption at any point of the batch loop ends INTERRUPTED: the
\* handler can always take its next step and takes no other, what is in
\* memory at the moment of the interruption is what the checkpoint and the
\* published document hold, the exit status is 0, and the next run loads
\* that current_line.
C6_InterruptPersists ==
    /\ [](pc = "INTERRUPTED"
            => /\ exit_status = 0
               /\ Snapshot = at_interrupt
               /\ progress_file.status = "ok"
               /\ progress_file.current_line = at_interrupt.current_line
               /\ progress_file.style_content = at_interrupt.style_content
               /\ progress_file.compaction_count = at_interrupt.compaction_count
               /\ output_file.status = "ok"
               /\ output_file.body = at_interrupt.style_content
               /\ output_file.current_line = at_interrupt.current_line
               /\ output_file.compaction_count = at_interrupt.compaction_count)
    /\ []((mode = "interrupt" /\ pc # "INTERRUPTED")
            => ENABLED (SaveOpen \/ SaveWrite \/ Publish))
    /\ [][/\ (mode = "interrupt" /\ pc # "INTERRUPTED")
                => /\ mode' = "interrupt"
                   /\ pc' = IF pc = "SAVE" THEN "SAVE_WRITE"
                            ELSE IF pc = "SAVE_WRITE" THEN "PUBLISH"
                            ELSE "INTERRUPTED"
          /\ (pc = "LOADING" /\ prev_outcome = "INTERRUPTED" /\ pc' = "ITERATING")
                => current_line' = at_interrupt.current_line]_vars

\* C6's case: a run interrupted between the merge and the advance of the
\* cursor was followed by a run that loaded the interrupted run's current_line
C6_Witness ==
    /\ run_no = 2
    /\ prev_outcome = "INTERRUPTED"
    /\ pc = "ITERATING"
    /\ batches = <<>>
    /\ current_line = at_interrupt.current_line
    /\ style_content = at_interrupt.style_content
    /\ merged_upto > current_line

\* C8 as claimed: an iteration whose analysis failed or is empty leaves
\* style_content and compaction_count as they were before it, and advances
\* current_line by len(batch).
C8_Original ==
    (pc = "SAVE" /\ mode = "loop" /\ ~(analysis.ok /\ analysis.text # <<>>))
        => /\ style_content = iter_start.style_content
           /\ compaction_count = iter_start.compaction_count
           /\ current_line = iter_start.current_line + Len(batch)

\* C8 as amended: with no analysis the merge step changes nothing, and the
\* iteration ends with style_content and compaction_count as they were
\* before it unless the document is over max_lines and this iteration's
\* compaction succeeds (then the document is the compaction result and
\* compaction_count is 1 more); current_line advances by len(batch).
C8_AbsentAnalysis ==
    /\ (pc \in {"COMPACT", "COMPACT_WAIT"} /\ ~(analysis.ok /\ analysis.text # <<>>))
        => /\ style_content = iter_start.style_content
           /\ compaction_count = iter_start.compaction_count
    /\ (pc = "SAVE" /\ mode = "loop" /\ ~(analysis.ok /\ analysis.text # <<>>))
        => /\ current_line = iter_start.current_line + Len(batch)
           /\ \/ /\ style_content = iter_start.style_content
                 /\ compaction_count = iter_start.compaction_count
              \/ /\ count_lines(iter_start.style_content) > max_lines
                 /\ compacted.ok
                 /\ style_content = compacted.text
                 /\ compaction_count = iter_start.compaction_count + 1

\* C8's case: an iteration without analysis, on a document that is not
\* empty, has advanced the cursor
C8_Witness ==
    /\ pc = "SAVE"
    /\ mode = "loop"
    /\ ~(analysis.ok /\ analysis.text # <<>>)
    /\ batch # <<>>
    /\ style_content # <<>>
    /\ style_content = iter_start.style_content
    /\ current_line = iter_start.current_line + Len(batch)

\* the lines of the comments file that are records, in order
RECURSIVE ObjLines(_)
ObjLines(n) ==
    IF n = 0 THEN <<>>
    ELSE IF comments_file[n] = "obj" THEN Append(ObjLines(n - 1), n - 1)
    ELSE ObjLines(n - 1)

\* C10 as claimed: from the default checkpoint, on n >= 1 records and
\* malformed lines at any positions, with batch size >= n and an oracle that
\* answers every call, the run reads one batch with the n records, makes one
\* analysis call, ends with current_line = n, and the document is the
\* analysis.  (Runs with a compaction are left aside.)
C10_MalformedScenario ==
    (/\ pc = "DONE"
     /\ run_no = 1
     /\ \A i \in 1..Len(comments_file) : comments_file[i] # "scalar"
     /\ Len(ObjLines(Len(comments_file))) >= 1
     /\ batch_size >= Len(ObjLines(Len(comments_file)))
     /\ ~oracle_failed
     /\ calls.compact = 0)
        => /\ batches = <<ObjLines(Len(comments_file))>>
           /\ calls.analyze = 1
           /\ current_line = Len(ObjLines(Len(comments_file)))
           /\ style_content = first_analysis.text

\* C1: for a fixed deterministic oracle stub and a fixed input, a run that is
\* interrupted after completed batch iterations (their checkpoint saved) and
\* resumed from the checkpoint ends with the style_content and the
\* current_line of the run made in one pass.
C1_Resumability ==
    (phase = "test" /\ pc \in {"DONE", "FAILED"})
        => /\ current_line = ref.current_line
           /\ style_content = ref.style_content

\* C1's case: a run resumed after an interruption has merged a further batch
\* and ended with the one-pass document
C1_Witness ==
    /\ phase = "test"
    /\ pc = "DONE"
    /\ prev_outcome = "INTERRUPTED"
    /\ calls.merge > 0
    /\ progress_file.current_line > at_interrupt.current_line
    /\ style_content = ref.style_content
    /\ current_line = ref.current_line

CompactionFailed ==
    /\ mode = "loop"
    /\ pc \in {"ADVANCE", "SAVE", "SAVE_WRITE", "PUBLISH"}
    /\ calls.compact > 0
    /\ ~(compacted.ok /\ compacted.text # <<>>)
    /\ style_content # <<>>
    /\ count_lines(style_content) > max_lines

\* C11: a compaction whose oracle fails (failure, timeout or empty output)
\* leaves style_content and compaction_count as they were; the iteration goes
\* on to advance current_line by len(batch) and to write the checkpoint with
\* the advanced cursor and the uncompacted document; the loop then takes the
\* next batch, and a document over max_lines at the next compaction check is
\* given to the compaction oracle again.
C11_CompactionFailureContinues ==
    /\ [][/\ (pc = "COMPACT_WAIT" /\ pc' = "ADVANCE"
                /\ ~(compacted'.ok /\ compacted'.text # <<>>))
                => UNCHANGED <<style_content, compaction_count>>
          /\ (CompactionFailed /\ mode' = "loop")
                => /\ UNCHANGED <<style_content, compaction_count>>
                   /\ pc' = IF pc = "ADVANCE" THEN "SAVE"
                            ELSE IF pc = "SAVE" THEN "SAVE_WRITE"
                            ELSE IF pc = "SAVE_WRITE" THEN "PUBLISH"
                            ELSE "ITERATING"
                   /\ pc = "ADVANCE" => current_line' = current_line + Len(batch)
                   /\ pc = "PUBLISH"
                        => /\ progress_file.status = "ok"
                           /\ progress_file.current_line
                                = iter_start.current_line + Len(batch)
                           /\ progress_file.style_content = style_content
                           /\ progress_file.compaction_count = compaction_count
          /\ (pc = "ITERATING" /\ mode' = "loop" /\ current_line < total_lines
                /\ read_comment_batch(current_line, batch_size) # <<>>)
                => pc' = "ANALYZE"
          /\ (pc = "COMPACT" /\ mode' = "loop" /\ style_content # <<>>
                /\ count_lines(style_content) > max_lines)
                => /\ pc' = "COMPACT_WAIT"
                   /\ calls'.compact = calls.compact + 1]_vars
    /\ [](CompactionFailed
            => ENABLED (Advance \/ SaveOpen \/ SaveWrite \/ Publish))

\* C11's case: the compaction of the first batch failed, the checkpoint was
\* written with the cursor advanced, and the compaction oracle is called
\* again in the iteration of the next batch
C11_Witness ==
    /\ run_no = 1
    /\ pc = "COMPACT_WAIT"
    /\ calls.compact = 2
    /\ compaction_count = 0
    /\ Len(batches) = 2
    /\ progress_file.status = "ok"
    /\ progress_file.current_line = current_line
    /\ current_line > 0
    /\ count_lines(progress_file.style_content) > max_lines

\* C12: with a document that is not empty and an analysis, a merge oracle
\* invocation that fails, times out, or prints nothing or only whitespace is
\* a failed merge: the document after the step is the document before it, a
\* blank-line separator and the analysis text as analyze_comment_batch
\* returned it.
C12_MergeFailureAppends ==
    [][(pc = "MERGE_WAIT" /\ pc' = "COMPACT")
        => \A o \in Outcomes(MergeTexts) :
            (/\ updated_content' = call_claude(o)
             /\ \/ o.kind # "ok"
                \/ \A i \in 1..Len(o.stdout) : o.stdout[i] \in Whitespace)
                => /\ style_content' = style_content \o <<NL, NL>> \o analysis.text
                   /\ style_content # <<>>
                   /\ analysis.ok
                   /\ analysis.text # <<>>]_vars

\* C12's case: the merge oracle exited with code 0 and printed nothing but
\* whitespace, and the analysis was appended to a document that was not empty
C12_Witness ==
    /\ pc = "COMPACT"
    /\ calls.merge > 0
    /\ updated_content.ok
    /\ updated_content.text = <<>>
    /\ iter_start.style_content # <<>>
    /\ analysis.text # <<>>
    /\ style_content = iter_start.style_content \o <<NL, NL>> \o analysis.text

\* C13 as claimed: a process that is killed during save_progress leaves in
\* the checkpoint file the complete previous checkpoint or the complete new
\* one, so that once a checkpoint with current_line > 0 has been written the
\* next load_progress does not start from the default state.
C13_AtomicSave ==
    /\ (pc = "KILLED" /\ saved_line > 0) => progress_file.status = "ok"
    /\ (pc = "ITERATING" /\ batches = <<>> /\ saved_line > 0)
            => /\ current_line >= saved_line
               /\ style_content = progress_file.style_content

\* C14 as claimed: whatever the input's lines, the batch size (>= 1) and the
\* oracle's outcomes are, a run that is not interrupted leaves the loop and
\* ends DONE (so it ends in no other way), and an iteration that does not
\* stop the loop has strictly increased current_line when it saves.
C14_Termination ==
    /\ (pc \in Terminal /\ mode # "interrupt" /\ batch_size >= 1) => pc = "DONE"
    /\ (pc = "SAVE" /\ mode = "loop" /\ batch_size >= 1)
            => current_line > iter_start.current_line

\* C15 as claimed: an oracle process runs only while call_claude waits for
\* it: after a timeout and after an interruption it has been terminated
\* before the engine goes on, so that none is running in DONE, INTERRUPTED
\* or FAILED.
C15_NoOrphanedOracle ==
    /\ pc \in Terminal => proc = "none"
    /\ pc \notin WaitPcs => proc = "none"

\* the 0-based positions, in input order, of the lines at or after cursor
\* that json.loads accepts
RecordsFrom(cursor) ==
    SelectSeq([i \in 1..Len(comments_file) |-> i - 1],
              LAMBDA i : i >= cursor /\ comments_file[i + 1] # "bad")

\* the first min(size, k) of the k records at or after cursor
FirstRecords(cursor, size) ==
    LET k == Len(RecordsFrom(cursor))
    IN  SubSeq(RecordsFrom(cursor), 1, IF size <= k THEN size ELSE k)

\* the batch the loop has just read is the one the contract describes
BatchAsSpecified ==
    (pc = "ITERATING" /\ pc' \in {"ANALYZE", "DONE"} /\ current_line < total_lines)
        => batch' = FirstRecords(current_line, batch_size)

\* C16 as claimed: read_comment_batch(cursor, size) is the first min(size, k)
\* of the k well-formed records at positions >= cursor, in input order,
\* malformed lines using no batch slot, and it is empty if and only if
\* there is no well-formed record at or after cursor.
C16_Original ==
    [][/\ BatchAsSpecified
       /\ (pc = "ITERATING" /\ pc' \in {"ANALYZE", "DONE"}
                /\ current_line < total_lines)
            => (batch' = <<>> <=> RecordsFrom(current_line) = <<>>)]_vars

\* C16 as amended: for every cursor and size, read_comment_batch(cursor, size)
\* is the first min(size, k) of the k well-formed records at positions
\* >= cursor, in input order, malformed lines using no batch slot; for
\* size >= 1 it is empty if and only if there is no well-formed record at or
\* after cursor, and for size 0 it is always empty.  The batch of every
\* iteration is read_comment_batch(current_line, batch_size).  (The file
\* never changes, so the function is compared where a process starts.)
C16_BatchReader ==
    /\ [](pc = "LOADING"
            => \A cursor \in 0..(Len(comments_file) + 1) : \A size \in BatchSizes :
                /\ read_comment_batch(cursor, size) = FirstRecords(cursor, size)
                /\ size >= 1 => (read_comment_batch(cursor, size) = <<>>
                                    <=> RecordsFrom(cursor) = <<>>)
                /\ size = 0 => read_comment_batch(cursor, size) = <<>>)
    /\ [][BatchAsSpecified]_vars

\* C16's case: a batch was read over a malformed line, which was skipped
\* without using a slot: the batch holds batch_size records, the last of
\* them after the malformed line
C16_Witness ==
    /\ pc = "ANALYZE"
    /\ batch = read_comment_batch(current_line, batch_size)
    /\ Len(batch) = batch_size
    /\ \E i \in 0..(Len(comments_file) - 1) :
            /\ comments_file[i + 1] = "bad"
            /\ i >= current_line
            /\ i < batch[Len(batch)]

\* C17: in every batch iteration the document after the merge/append step
\* (no analysis, first content, accepted merge, or append) has at least 90%
\* of the characters it had before the step, whatever the merge oracle
\* printed; within a process only the step that takes a compaction result
\* makes the document shorter than that.
C17_ShrinkFloor ==
    /\ []((pc \in {"MERGE", "MERGE_WAIT", "COMPACT", "COMPACT_WAIT"} /\ mode = "loop")
            => 10 * Len(style_content) >= 9 * Len(iter_start.style_content))
    /\ [][/\ (pc \in {"MERGE", "MERGE_WAIT"} /\ pc' = "COMPACT")
                => 10 * Len(style_content') >= 9 * Len(style_content)
          /\ (10 * Len(style_content') < 9 * Len(style_content) /\ pc' # "LOADING")
                => /\ pc = "COMPACT_WAIT"
                   /\ compacted'.ok
                   /\ style_content' = compacted'.text]_vars

\* C17's case: the merge oracle's answer was taken as the new document, in
\* place of a document that was not empty, and it is within the floor
C17_Witness ==
    /\ pc = "COMPACT"
    /\ mode = "loop"
    /\ calls.merge > 0
    /\ updated_content.ok
    /\ iter_start.style_content # <<>>
    /\ style_content = updated_content.text
    /\ style_content # iter_start.style_content
    /\ 10 * Len(style_content) >= 9 * Len(iter_start.style_content)

\* the record at position i was in a batch given to analyze_comment_batch
InSomeBatch(i) ==
    \E b \in 1..Len(batches) : \E k \in 1..Len(batches[b]) : batches[b][k] = i

\* C18 as claimed: in one run from the default checkpoint that is not
\* interrupted, no well-formed record is in more than one of the batches
\* given to the analysis, whatever malformed lines the input has.
C18_AtMostOnce ==
    (run_no = 1 /\ mode # "interrupt")
        => \A b1, b2 \in 1..Len(batches) :
            b1 < b2 => \A k1 \in 1..Len(batches[b1]) : \A k2 \in 1..Len(batches[b2]) :
                        batches[b1][k1] # batches[b2][k2]

\* the second half of C19: the cursor is never past a well-formed record
\* that was in no batch
NoRecordPassed ==
    run_no = 1
        => \A i \in 0..(Len(comments_file) - 1) :
            (i < current_line /\ comments_file[i + 1] # "bad") => InSomeBatch(i)

\* C19 as claimed: in one uninterrupted run from the default checkpoint that
\* ends DONE, every well-formed record was in a batch given to
\* analyze_comment_batch, and the cursor is never past a well-formed record
\* that was in no batch.
C19_Original ==
    /\ (pc = "DONE" /\ run_no = 1)
            => \A i \in 0..(Len(comments_file) - 1) :
                comments_file[i + 1] # "bad" => InSomeBatch(i)
    /\ NoRecordPassed

\* C19 as amended: the same for a batch size >= 1; with a batch size of 0
\* every batch is empty, and the run ends DONE with no record in a batch.
C19_AtLeastOnce ==
    /\ (pc = "DONE" /\ run_no = 1 /\ batch_size >= 1)
            => \A i \in 0..(Len(comments_file) - 1) :
                comments_file[i + 1] # "bad" => InSomeBatch(i)
    /\ (pc = "DONE" /\ run_no = 1 /\ batch_size = 0) => batches = <<>>
    /\ NoRecordPassed

\* C19's case: a run over a malformed line and two batches has ended DONE
\* with its record in a batch
C19_Witness ==
    /\ pc = "DONE"
    /\ run_no = 1
    /\ batch_size >= 1
    /\ Len(batches) >= 2
    /\ \E i \in 1..Len(comments_file) : comments_file[i] = "bad"
    /\ \E i \in 1..Len(comments_file) : comments_file[i] = "obj"
    /\ \A i \in 0..(Len(comments_file) - 1) :
            comments_file[i + 1] # "bad" => InSomeBatch(i)

\* what load_progress gives: the checkpoint, or the defaults of __init__
Loaded ==
    IF progress_file.status = "ok"
    THEN [current_line |-> progress_file.current_line,
          style_content |-> progress_file.style_content,
          compaction_count |-> progress_file.compaction_count]
    ELSE NoSnapshot

\* C20: a run started on the same input from the checkpoint that a run which
\* ended DONE has left makes no oracle invocation and gives no batch to the
\* analysis; once it has loaded, current_line, style_content and
\* compaction_count never change, and it ends DONE with the values loaded.
C20_RerunIsNoOp ==
    /\ []((prev_outcome = "DONE" /\ pc # "LOADING")
            => /\ calls = NoCalls
               /\ batches = <<>>
               /\ proc = "none"
               /\ pc \notin {"ANALYZE", "FAILED"}
               /\ progress_file.status = "ok" => Snapshot = Loaded
               /\ (pc \in Terminal /\ mode = "loop") => pc = "DONE")
    /\ [][(prev_outcome = "DONE" /\ run_no' = run_no)
            => (pc = "LOADING" /\ Snapshot' = Loaded)
                    \/ UNCHANGED <<current_line, style_content,
                                   compaction_count>>]_vars

\* C20's case: the run before ended DONE with both records processed and a
\* document, and this run has ended DONE with the checkpoint's values
C20_Witness ==
    /\ prev_outcome = "DONE"
    /\ pc = "DONE"
    /\ progress_file.status = "ok"
    /\ progress_file.current_line > 1
    /\ progress_file.style_content # <<>>
    /\ Snapshot = Loaded
    /\ calls = NoCalls

\* the steps of one process that nothing disturbs
Steps ==
    \/ LoadProgress
    \/ ReadBatch
    \/ EmptyBatch
    \/ LoopDone
    \/ AnalyzeRaise
    \/ AnalyzeCall
    \/ AnalyzeReturn
    \/ MergeSkip
    \/ MergeFirst
    \/ MergeCall
    \/ MergeReturn
    \/ CompactSkip
    \/ CompactEmpty
    \/ CompactCall
    \/ CompactReturn
    \/ Advance
    \/ SaveOpen
    \/ SaveWrite
    \/ Publish

Next ==
    \/ Steps
    \/ Interrupt
    \/ Restart

Spec == Init /\ [][Next]_vars

\* one process on a disk whose writes may fail
NextFault ==
    \/ Steps
    \/ Interrupt
    \/ SaveOpenFail
    \/ SaveWriteFail
    \/ PublishFail

SpecFault == Init /\ [][NextFault]_vars

\* processes that may be killed at any moment, each started after the one
\* before it was killed
NextCrash ==
    \/ Steps
    \/ Interrupt
    \/ Kill
    \/ RestartKilled

SpecCrash == Init /\ [][NextCrash]_vars

\* the same program with a fixed deterministic oracle stub: a run in one
\* pass, then a run that may be interrupted between iterations and resumed
NextDet ==
    \/ Steps
    \/ InterruptAfterBatch
    \/ RestartResumed
    \/ BeginTest

InitDet == InitWith(TRUE)

SpecDet == InitDet /\ [][NextDet]_vars
====
